---- MODULE Spec2Model ----
(***************************************************************************)
(* A model of the GitHub Comics CLI core (src/src/index.ts):               *)
(*   fetchRepositories  - username check, GitHub request, response checks  *)
(*   createComicPrompt  - input validation and prompt rendering            *)
(*                                                                         *)
(* JavaScript strings are sequences of tokens.  A token is either one      *)
(* character ("a", "-", "@") or one literal fragment of a template string  *)
(* of the source ("Invalid GitHub username: ").  JavaScript values are     *)
(* records [t, s, n]: t is the kind of value, s the characters of a string *)
(* and n the magnitude of a finite number.                                 *)
(***************************************************************************)
EXTENDS Integers, Sequences, FiniteSets, TLC

(***************************************************************************)
(* Bounds of the model.                                                    *)
(***************************************************************************)
\* longest username enumerated character by character
MaxUserLen == 3
\* longest repository list handed to createComicPrompt
MaxRepos == 3
\* longest repository sequence in a GitHub response body
MaxBody == 2
\* largest finite count handed to createComicPrompt
MaxCount == 4
\* most files in a result of the image provider
MaxFiles == 2
\* longest --count value
MaxCountLen == 2

(***************************************************************************)
(* JavaScript values.                                                      *)
(***************************************************************************)
Undef == [t |-> "undefined", s |-> <<>>, n |-> 0]

Null == [t |-> "null", s |-> <<>>, n |-> 0]

NaNVal == [t |-> "NaN", s |-> <<>>, n |-> 0]

PosInf == [t |-> "Infinity", s |-> <<>>, n |-> 0]

NegInf == [t |-> "-Infinity", s |-> <<>>, n |-> 0]

Str(chars) == [t |-> "string", s |-> chars, n |-> 0]

Num(k) == [t |-> "number", s |-> <<>>, n |-> k]

\* typeof v
TypeOf(v) ==
  CASE v.t = "string" -> "string"
    [] v.t \in {"number", "NaN", "Infinity", "-Infinity"} -> "number"
    [] v.t = "undefined" -> "undefined"
    [] OTHER -> "object"

\* isNaN(v) for a v whose typeof is "number"
IsNaN(v) == v.t = "NaN"

\* v < k for a v whose typeof is "number" (every comparison with NaN is false)
LessThan(v, k) ==
  CASE v.t = "number" -> v.n < k
    [] v.t = "-Infinity" -> TRUE
    [] OTHER -> FALSE

\* ToBoolean(v): the test of `if (v)`, `!v` and `v ? a : b`
Truthy(v) ==
  CASE v.t = "string" -> v.s # <<>>
    [] v.t = "number" -> v.n # 0
    [] v.t \in {"Infinity", "-Infinity", "object"} -> TRUE
    [] OTHER -> FALSE

\* `${v}` in a template literal
Interpolate(v) ==
  CASE v.t = "string" -> v.s
    [] v.t = "number" -> <<ToString(v.n)>>
    [] v.t = "object" -> <<"[object Object]">>
    [] OTHER -> <<v.t>>

(***************************************************************************)
(* Helpers on sequences.                                                   *)
(***************************************************************************)
SeqsUpTo(S, k) == UNION {[1..m -> S] : m \in 0..k}

Min(a, b) == IF a <= b THEN a ELSE b

Max(a, b) == IF a >= b THEN a ELSE b

MinOf(S) == CHOOSE x \in S : \A y \in S : x <= y

RECURSIVE Repeat(_, _)
Repeat(c, k) == IF k <= 0 THEN <<>> ELSE <<c>> \o Repeat(c, k - 1)

RECURSIVE Flatten(_)
Flatten(ss) == IF ss = <<>> THEN <<>> ELSE Head(ss) \o Flatten(Tail(ss))

(***************************************************************************)
(* fetchRepositories: the username check (index.ts:46-49).                 *)
(*   /^[a-z\d](?:[a-z\d]|-(?=[a-z\d])){0,38}$/i                            *)
(***************************************************************************)
LowerCase ==
  {"a", "b", "c", "d", "e", "f", "g", "h", "i", "j", "k", "l", "m",
   "n", "o", "p", "q", "r", "s", "t", "u", "v", "w", "x", "y", "z"}

UpperCase ==
  {"A", "B", "C", "D", "E", "F", "G", "H", "I", "J", "K", "L", "M",
   "N", "O", "P", "Q", "R", "S", "T", "U", "V", "W", "X", "Y", "Z"}

Digits == {"0", "1", "2", "3", "4", "5", "6", "7", "8", "9"}

\* the class [a-z\d] under the i flag (no u flag: only ASCII letters fold
\* onto a-z)
ClassAlnum(c) == c \in LowerCase \cup UpperCase \cup Digits

\* the upper limit of the quantifier {0,38}
MaxTailRepeat == 38

\* TailStep with the lookahead (?=[a-z\d]) left out
TailStepNoLookahead(s, i) == ClassAlnum(s[i]) \/ s[i] = "-"

\* one iteration of (?:[a-z\d]|-(?=[a-z\d])) at position i: both
\* alternatives consume exactly one character
TailStep(s, i) ==
  \/ ClassAlnum(s[i])
  \/ /\ s[i] = "-"
     /\ i + 1 <= Len(s)
     /\ ClassAlnum(s[i + 1])

\* (?:...){0,38}$ from position i, k iterations done: $ (no m flag) matches
\* only at the end of the input
RECURSIVE MatchTail(_, _, _)
MatchTail(s, i, k) ==
  IF i > Len(s) THEN TRUE
  ELSE IF k >= MaxTailRepeat THEN FALSE
  ELSE IF TailStep(s, i) THEN MatchTail(s, i + 1, k + 1)
  ELSE FALSE

\* UsernameRegexTest letting every text through that is not empty
UsernameRegexTestNonEmpty(s) == Len(s) >= 1

\* USERNAME_REGEX.test(user)
UsernameRegexTest(s) ==
  /\ Len(s) >= 1
  /\ ClassAlnum(s[1])
  /\ MatchTail(s, 2, 0)

InvalidUsernameMessage(user) == <<"Invalid GitHub username: ">> \o user

(***************************************************************************)
(* fetchRepositories: the request (index.ts:51-64).                        *)
(***************************************************************************)
\* characters encodeURIComponent leaves as they are
UriUnreserved ==
  LowerCase \cup UpperCase \cup Digits
    \cup {"-", "_", ".", "!", "~", "*", "'", "(", ")"}

\* encodeURIComponent of one character
EncodeChar(c) ==
  IF c \in UriUnreserved THEN <<c>>
  ELSE CASE c = "@" -> <<"%", "4", "0">>
         [] c = "/" -> <<"%", "2", "F">>
         [] c = "?" -> <<"%", "3", "F">>
         [] c = " " -> <<"%", "2", "0">>
         [] c = "\n" -> <<"%", "0", "A">>
         [] c = "U+00E9" -> <<"%", "C", "3", "%", "A", "9">>
         [] c = "U+212A" -> <<"%", "E", "2", "%", "8", "4", "%", "A", "A">>

\* encodeURIComponent(user)
EncodeURIComponent(s) == Flatten([i \in 1..Len(s) |-> EncodeChar(s[i])])

RequestUrl(user) ==
  <<"https://api.github.com", "/users/">> \o EncodeURIComponent(user)
    \o <<"/repos", "?sort=updated&per_page=30">>

BaseHeaders ==
  ("Accept" :> <<"application/vnd.github+json">>)
    @@ ("User-Agent" :> <<"github-comics-cli">>)

\* RequestHeaders testing `token !== undefined` instead of `token`
RequestHeadersIfDefined(token) ==
  IF token.t # "undefined"
  THEN BaseHeaders @@ ("Authorization" :> (<<"Bearer ">> \o Interpolate(token)))
  ELSE BaseHeaders

\* the headers object after `if (token) headers.Authorization = ...`
RequestHeaders(token) ==
  IF Truthy(token)
  THEN BaseHeaders @@ ("Authorization" :> (<<"Bearer ">> \o Interpolate(token)))
  ELSE BaseHeaders

Request(user, token) == [url |-> RequestUrl(user), headers |-> RequestHeaders(token)]

(***************************************************************************)
(* Repositories.  A field the object does not have reads as undefined.     *)
(***************************************************************************)
Repo(name, description, stars, language) ==
  [name |-> name, description |-> description,
   stargazers_count |-> stars, language |-> language]

RepoValues ==
  { Repo(Str(<<"repo1">>), Str(<<"first">>), Num(100), Str(<<"TypeScript">>)),
    Repo(Str(<<"repo2">>), Null, Num(0), Null),
    Repo(Str(<<"repo3">>), Str(<<>>), Undef, Undef),
    Repo(Undef, Str(<<"has description">>), Num(7), Str(<<"Go">>)),
    Repo(Num(123), Str(<<"desc">>), Undef, Null),
    Repo(Str(<<>>), Null, Num(1), Undef) }

\* an element of GitHub's response: the four fields the code reads and one
\* (id) it does not
RawRepo(r, id) ==
  [name |-> r.name, description |-> r.description,
   stargazers_count |-> r.stargazers_count, language |-> r.language,
   id |-> Num(id)]

RawRepoValues == {RawRepo(r, 42) : r \in RepoValues}

\* a value that is an array (t = "array", its elements in items) or is not
ArrayOf(items) == [t |-> "array", items |-> items]

NotArray(kind) == [t |-> kind, items |-> <<>>]

\* Array.isArray(v)
IsArray(v) == v.t = "array"

(***************************************************************************)
(* fetchRepositories: the response (index.ts:66-91).                       *)
(***************************************************************************)
\* an ImageResult; the empty one stands for none
ImageResult(filePath, fileName) == [filePath |-> filePath, fileName |-> fileName]

NoImage == ImageResult(<<>>, <<>>)

\* an Error object was thrown
Threw(msg) ==
  [kind |-> "threw", msg |-> msg, repos |-> <<>>, text |-> <<>>, image |-> NoImage]

\* a value that is no Error object was thrown
ThrewValue(value) ==
  [kind |-> "threwValue", msg |-> value, repos |-> <<>>, text |-> <<>>,
   image |-> NoImage]

ReturnedRepos(list) ==
  [kind |-> "returned", msg |-> <<>>, repos |-> list, text |-> <<>>,
   image |-> NoImage]

ReturnedText(text) ==
  [kind |-> "returned", msg |-> <<>>, repos |-> <<>>, text |-> text,
   image |-> NoImage]

ReturnedImage(image) ==
  [kind |-> "returned", msg |-> <<>>, repos |-> <<>>, text |-> <<>>,
   image |-> image]

NoOutcome ==
  [kind |-> "none", msg |-> <<>>, repos |-> <<>>, text |-> <<>>, image |-> NoImage]

\* ErrorDetail without the special cases of 404 and 403
ErrorDetailStatusTextOnly(res) == res.statusText

\* the errorDetail of a response that is not ok
ErrorDetail(res) ==
  IF res.status = 404 THEN <<"User not found">>
  ELSE IF res.status = 403
  THEN <<"API rate limit exceeded. Use GITHUB_TOKEN for higher limits.">>
  ELSE res.statusText

FetchFailedMessage(user, res) ==
  <<"Failed to fetch repos for ">> \o user
    \o <<": ", ToString(res.status), " ">> \o ErrorDetail(res)

InvalidResponseMessage == <<"Invalid response from GitHub API">>

\* NoRepositoriesMessage leaving the user out
NoRepositoriesMessageAnonymous(user) == <<"User has no public repositories">>

NoRepositoriesMessage(user) ==
  <<"User '">> \o user \o <<"' has no public repositories">>

\* MapRepos dropping the elements that have no name
MapReposNamedOnly(data) ==
  LET named == SelectSeq(data, LAMBDA d : Truthy(d.name))
  IN  [i \in 1..Len(named) |->
         Repo(named[i].name, named[i].description,
              named[i].stargazers_count, named[i].language)]

\* data.map((repo) => ({name, description, stargazers_count, language}))
MapRepos(data) ==
  [i \in 1..Len(data) |->
     Repo(data[i].name, data[i].description,
          data[i].stargazers_count, data[i].language)]

\* whether fetchRepositories calls res.json()
ReadsBody(res) == res.ok

\* FetchOutcome without the check for an empty sequence
FetchOutcomeEmptyAllowed(user, res) ==
  IF ~res.ok THEN Threw(FetchFailedMessage(user, res))
  ELSE IF ~IsArray(res.body) THEN Threw(InvalidResponseMessage)
  ELSE ReturnedRepos(MapRepos(res.body.items))

\* what fetchRepositories does with the response of fetch
FetchOutcome(user, res) ==
  IF ~res.ok THEN Threw(FetchFailedMessage(user, res))
  ELSE IF ~IsArray(res.body) THEN Threw(InvalidResponseMessage)
  ELSE IF Len(res.body.items) = 0 THEN Threw(NoRepositoriesMessage(user))
  ELSE ReturnedRepos(MapRepos(res.body.items))

(***************************************************************************)
(* createComicPrompt (index.ts:103-136).                                   *)
(***************************************************************************)
\* the default of the parameter count
DefaultCount == 3

WhiteSpace == {" ", "\t", "\n"}

RECURSIVE TrimStart(_)
TrimStart(s) ==
  IF s # <<>> /\ Head(s) \in WhiteSpace THEN TrimStart(Tail(s)) ELSE s

RECURSIVE TrimEnd(_)
TrimEnd(s) ==
  IF s # <<>> /\ s[Len(s)] \in WhiteSpace
  THEN TrimEnd(SubSeq(s, 1, Len(s) - 1))
  ELSE s

\* user.trim()
Trim(s) == TrimEnd(TrimStart(s))
\* SliceEnd stopping one element late
SliceEndOneLate(len, end) ==
  CASE end.t = "Infinity" -> len
    [] end.t = "-Infinity" -> 0
    [] end.t = "number" /\ end.n < 0 -> Max(len + end.n, 0)
    [] end.t = "number" /\ end.n >= 0 -> Min(end.n + 1, len)

\* the index at which items.slice(0, end) stops, end a number that is not
\* NaN: ToIntegerOrInfinity(end), a negative end counted from the back
SliceEnd(len, end) ==
  CASE end.t = "Infinity" -> len
    [] end.t = "-Infinity" -> 0
    [] end.t = "number" /\ end.n < 0 -> Max(len + end.n, 0)
    [] end.t = "number" /\ end.n >= 0 -> Min(end.n, len)

\* items.slice(0, end)
SliceFromStart(items, end) == SubSeq(items, 1, SliceEnd(Len(items), end))
\* NameMissing without the test `!r.name`
NameMissingTypeOnly(r) == TypeOf(r.name) # "string"

\* !r.name || typeof r.name !== 'string'
NameMissing(r) == ~Truthy(r.name) \/ TypeOf(r.name) # "string"

\* idx is 0-based
MissingNameMessage(idx) ==
  <<"Repository at index ", ToString(idx), " is missing required field: name">>

\* StarSegment testing `!== undefined` instead of truthiness
StarSegmentIfDefined(r) ==
  IF r.stargazers_count.t # "undefined"
  THEN <<" (", "U+2B50", " ">> \o Interpolate(r.stargazers_count) \o <<")">>
  ELSE <<>>

\* the code point U+2B50 and the text around it
StarSegment(r) ==
  IF Truthy(r.stargazers_count)
  THEN <<" (", "U+2B50", " ">> \o Interpolate(r.stargazers_count) \o <<")">>
  ELSE <<>>

LanguageSegment(r) ==
  IF Truthy(r.language)
  THEN <<" [">> \o Interpolate(r.language) \o <<"]">>
  ELSE <<>>

\* DescriptionText with || in the place of ??
DescriptionTextOrDefault(r) ==
  IF ~Truthy(r.description)
  THEN <<"No description">>
  ELSE Interpolate(r.description)

\* r.description ?? 'No description'
DescriptionText(r) ==
  IF r.description.t \in {"null", "undefined"}
  THEN <<"No description">>
  ELSE Interpolate(r.description)

\* the line of the repository at 0-based index idx
RepoLine(r, idx) ==
  <<ToString(idx + 1), ". ">> \o Interpolate(r.name) \o LanguageSegment(r)
    \o StarSegment(r) \o <<": ">> \o DescriptionText(r)

\* lines.join('\n')
RECURSIVE JoinLines(_)
JoinLines(lines) ==
  IF lines = <<>> THEN <<>>
  ELSE IF Len(lines) = 1 THEN lines[1]
  ELSE lines[1] \o <<"\n">> \o JoinLines(Tail(lines))

PromptOpening == "Create a humorous "

PromptPhrase == "4-panel comic strip"

PromptAbout == " about GitHub user \""

PromptListHeading == "\" and their coding projects.\n\nTheir top repositories:\n"

PromptStyle == "\n\nStyle: Comic book style, colorful, fun and playful. Each panel should tell part of the story about their coding journey. Make it lighthearted and encouraging."

\* PromptText with the username trimmed
PromptTextTrimmedUser(user, repoDetails) ==
  <<PromptOpening, PromptPhrase, PromptAbout>> \o Trim(user)
    \o <<PromptListHeading>> \o repoDetails \o <<PromptStyle>>

PromptText(user, repoDetails) ==
  <<PromptOpening, PromptPhrase, PromptAbout>> \o user
    \o <<PromptListHeading>> \o repoDetails \o <<PromptStyle>>

\* the 0-based indexes of topRepos at which the map callback throws
MissingNameIndexes(topRepos) ==
  {i - 1 : i \in {j \in 1..Len(topRepos) : NameMissing(topRepos[j])}}

\* typeof user !== 'string' || user.trim().length === 0
UserRejected(user) == TypeOf(user) # "string" \/ Len(Trim(user.s)) = 0

\* CountRejected comparing with 0 instead of 1
CountRejectedBelowZero(count) ==
  TypeOf(count) # "number" \/ IsNaN(count) \/ LessThan(count, 0)

\* typeof count !== 'number' || isNaN(count) || count < 1
CountRejected(count) ==
  TypeOf(count) # "number" \/ IsNaN(count) \/ LessThan(count, 1)

\* the parameter count after its default is applied
CountParameter(countArg) ==
  IF countArg.t = "undefined" THEN Num(DefaultCount) ELSE countArg

\* CreateComicPrompt checking count before repos and user
CreateComicPromptCountFirst(repos, user, countArg) ==
  LET count == CountParameter(countArg)
  IN  IF CountRejected(count) THEN Threw(<<"count must be a positive number">>)
      ELSE IF ~IsArray(repos) THEN Threw(<<"repos must be an array">>)
      ELSE IF UserRejected(user) THEN Threw(<<"user must be a non-empty string">>)
      ELSE LET topRepos == SliceFromStart(repos.items, count)
               bad == MissingNameIndexes(topRepos)
           IN  IF bad # {}
               THEN Threw(MissingNameMessage(MinOf(bad)))
               ELSE ReturnedText(PromptText(user.s,
                      JoinLines([i \in 1..Len(topRepos) |->
                                   RepoLine(topRepos[i], i - 1)])))

\* createComicPrompt(repos, user, countArg): what it throws or returns
CreateComicPrompt(repos, user, countArg) ==
  LET count == CountParameter(countArg)
  IN  IF ~IsArray(repos) THEN Threw(<<"repos must be an array">>)
      ELSE IF UserRejected(user) THEN Threw(<<"user must be a non-empty string">>)
      ELSE IF CountRejected(count) THEN Threw(<<"count must be a positive number">>)
      ELSE LET topRepos == SliceFromStart(repos.items, count)
               bad == MissingNameIndexes(topRepos)
           IN  IF bad # {}
               THEN Threw(MissingNameMessage(MinOf(bad)))
               ELSE ReturnedText(PromptText(user.s,
                      JoinLines([i \in 1..Len(topRepos) |->
                                   RepoLine(topRepos[i], i - 1)])))

(***************************************************************************)
(* generateComicImage (index.ts:147-194).                                  *)
(***************************************************************************)
\* the default of the parameter outputDir: './output'
DefaultOutputDir == <<".", "/", "output">>

ModelId == "gemini-2.5-flash-image-preview"

\* the call generateText({model: google(ModelId, {apiKey}), prompt})
ProviderCall(prompt, apiKey) ==
  [model |-> ModelId, apiKey |-> apiKey, prompt |-> prompt]

\* a file of the provider's result
FilePayload(mediaType, data) == [mediaType |-> mediaType, uint8Array |-> data]

\* a result of the provider: hasFiles is whether result.files is set
ProviderResult(hasFiles, files, finishReason) ==
  [hasFiles |-> hasFiles, files |-> files, finishReason |-> finishReason]

\* !result.files || result.files.length === 0
NoFiles(result) == ~result.hasFiles \/ Len(result.files) = 0

\* NoImagesMessage leaving the finish reason out
NoImagesMessageNoReason(result) ==
  <<"No images were generated. ",
    "Make sure you have credits and the model supports image generation.">>

NoImagesMessage(result) ==
  <<"No images were generated. Finish reason: ">> \o result.finishReason
    \o <<". ", "Make sure you have credits and the model supports image generation.">>

\* ExaminedFile taking the first file that is an image, if there is one
ExaminedFileFirstImage(result) ==
  LET images == {i \in 1..Len(result.files) :
                   Len(result.files[i].mediaType) >= 2
                     /\ result.files[i].mediaType[1] = "image"}
  IN  IF images = {} THEN result.files[1] ELSE result.files[MinOf(images)]

\* const file = result.files[0]
ExaminedFile(result) == result.files[1]

\* file.mediaType.startsWith('image/')
StartsWithImage(mediaType) ==
  /\ Len(mediaType) >= 2
  /\ mediaType[1] = "image"
  /\ mediaType[2] = "/"

InvalidFileTypeMessage(mediaType) == <<"Invalid file type: ">> \o mediaType

\* text.split(sep)
RECURSIVE Split(_, _)
Split(text, sep) ==
  LET at == {i \in 1..Len(text) : text[i] = sep}
  IN  IF at = {} THEN <<text>>
      ELSE <<SubSeq(text, 1, MinOf(at) - 1)>>
             \o Split(SubSeq(text, MinOf(at) + 1, Len(text)), sep)

\* Extension without the default
ExtensionNoDefault(mediaType) == Split(mediaType, "/")[2]

\* file.mediaType.split('/')[1] || 'png'
Extension(mediaType) ==
  LET parts == Split(mediaType, "/")
  IN  IF Len(parts) < 2 \/ parts[2] = <<>> THEN <<"png">> ELSE parts[2]

\* FileName without the timestamp
FileNameUnstamped(now, extension) == <<"github-comic", ".">> \o extension

\* `github-comic-${Date.now()}.${extension}`
FileName(now, extension) == <<"github-comic-", ToString(now), ".">> \o extension

\* path.normalize of a relative path without "..": the "." segments and the
\* empty segments go
NormalizePath(p) ==
  LET kept == SelectSeq(Split(p, "/"), LAMBDA seg : seg # <<>> /\ seg # <<".">>)
  IN  IF kept = <<>> THEN <<".">>
      ELSE Flatten([i \in 1..Len(kept) |->
                      IF i = 1 THEN kept[i] ELSE <<"/">> \o kept[i]])

\* path.join(outputDir, fileName)
PathJoin(dir, name) == NormalizePath(dir \o <<"/">> \o name)

\* the result of a run that got as far as the write
TargetOf(outputDir, mediaType, now) ==
  ImageResult(PathJoin(outputDir, FileName(now, Extension(mediaType))),
              FileName(now, Extension(mediaType)))

GenerationPrefix == "Failed to generate comic: "

\* CatchAndWrap throwing again what it caught
CatchAndRethrow(thrown) == thrown

\* the catch block: an Error is thrown again under the prefix, any other
\* value as it is
CatchAndWrap(thrown) ==
  IF thrown.kind = "threw"
  THEN Threw(<<GenerationPrefix>> \o thrown.msg)
  ELSE thrown

(***************************************************************************)
(* generateGithubComic (index.ts:204-219).                                 *)
(***************************************************************************)
\* the default of options.repoCount
DefaultRepoCount == 3

\* const { repoCount = 3, outputDir = './output' } = options
RepoCountOption(repoCount) ==
  IF repoCount.t = "undefined" THEN Num(DefaultRepoCount) ELSE repoCount

OutputDirOption(outputDir) ==
  IF outputDir.t = "undefined" THEN DefaultOutputDir ELSE outputDir.s

\* Propagate putting a stage's Error into an Error of its own
PropagateWrapped(result) ==
  IF result.kind = "threw"
  THEN [result EXCEPT !.msg = <<"Comic generation failed: ">> \o result.msg]
  ELSE result

\* generateGithubComic has no try/catch: what a stage throws or returns is
\* what the caller gets
Propagate(result) == result

(***************************************************************************)
(* The generate command (cli.ts:37-99).                                    *)
(***************************************************************************)
\* a || b
OrElse(a, b) == IF Truthy(a) THEN a ELSE b

DigitSeq == <<"0", "1", "2", "3", "4", "5", "6", "7", "8", "9">>

DigitValue(c) == (CHOOSE i \in 1..Len(DigitSeq) : DigitSeq[i] = c) - 1

\* the longest prefix of s made of decimal digits
RECURSIVE DigitsPrefix(_)
DigitsPrefix(s) ==
  IF s # <<>> /\ Head(s) \in Digits
  THEN <<Head(s)>> \o DigitsPrefix(Tail(s))
  ELSE <<>>

\* the number a sequence of decimal digits writes
RECURSIVE DecimalValue(_)
DecimalValue(ds) ==
  IF ds = <<>> THEN 0
  ELSE 10 * DecimalValue(SubSeq(ds, 1, Len(ds) - 1)) + DigitValue(ds[Len(ds)])

\* parseInt(text, 10): leading white space is skipped, a sign is read, then
\* the digits up to the first character that is none; NaN without a digit
ParseInt(text) ==
  LET s == TrimStart(text)
      signed == s # <<>> /\ Head(s) \in {"+", "-"}
      ds == DigitsPrefix(IF signed THEN Tail(s) ELSE s)
  IN  IF ds = <<>> THEN NaNVal
      ELSE IF signed /\ Head(s) = "-" THEN Num(0 - DecimalValue(ds))
      ELSE Num(DecimalValue(ds))

MinRepoCount == 1

MaxRepoCount == 10

\* repoCount < 1 || repoCount > 10
CountOutOfRange(repoCount) == repoCount.n < MinRepoCount \/ repoCount.n > MaxRepoCount

\* options.apiKey || process.env.AI_GATEWAY_API_KEY
ResolvedApiKey(optKey, envKey) == OrElse(optKey, envKey)

\* options.token || process.env.GITHUB_TOKEN
ResolvedToken(optToken, envToken) == OrElse(optToken, envToken)

CrossMark == "U+274C"

ApiKeyMissingLines ==
  << <<CrossMark, " Error: Vercel AI Gateway API token is required">>,
     <<"   Provide it via --api-key flag or AI_GATEWAY_API_KEY environment variable">>,
     <<>>,
     <<"   Get your API key at: https://vercel.com/dashboard">> >>

CountNotANumberLines(count) ==
  << <<CrossMark, " Error: Repository count must be a valid number">>,
     <<"   Received: \"">> \o count \o <<"\"">> >>

CountOutOfRangeLines(repoCount) ==
  << <<CrossMark, " Error: Repository count must be between 1 and 10">>,
     <<"   Received: ">> \o Interpolate(repoCount) >>

RuleLine == <<"U+2501 x 40">>

BannerLines(username, repoCount, output) ==
  << <<>>,
     <<"U+1F3A8", " GitHub Comics Generator">>,
     RuleLine,
     <<"U+1F464", " User: ">> \o username,
     <<"U+1F4CA", " Repositories: Top ">> \o Interpolate(repoCount),
     <<"U+1F4C1", " Output: ">> \o output,
     RuleLine,
     <<>>,
     <<"U+1F50D", " Fetching repositories for ">> \o username \o <<"...">> >>

SuccessLines(image) ==
  << <<>>,
     RuleLine,
     <<"U+1F389", " Success!">>,
     <<"U+1F4C4", " File: ">> \o image.fileName,
     <<"U+1F4C2", " Path: ">> \o image.filePath,
     RuleLine,
     <<>> >>

\* error instanceof Error ? error.message : String(error)
ErrorText(thrown) == thrown.msg

ErrorLines(thrown) ==
  << <<>>, <<CrossMark, " Error:", " ">> \o ErrorText(thrown), <<>> >>

\* CliCheck without the check of the API key
CliCheckCountOnly(optKey, envKey, count) ==
  IF IsNaN(ParseInt(count))
  THEN [exits |-> TRUE, lines |-> CountNotANumberLines(count)]
  ELSE IF CountOutOfRange(ParseInt(count))
  THEN [exits |-> TRUE, lines |-> CountOutOfRangeLines(ParseInt(count))]
  ELSE [exits |-> FALSE, lines |-> <<>>]

\* what the action does before it calls generateGithubComic: it exits on a
\* missing API key, on a count that parses to NaN, on a count out of range
CliCheck(optKey, envKey, count) ==
  IF ~Truthy(ResolvedApiKey(optKey, envKey))
  THEN [exits |-> TRUE, lines |-> ApiKeyMissingLines]
  ELSE IF IsNaN(ParseInt(count))
  THEN [exits |-> TRUE, lines |-> CountNotANumberLines(count)]
  ELSE IF CountOutOfRange(ParseInt(count))
  THEN [exits |-> TRUE, lines |-> CountOutOfRangeLines(ParseInt(count))]
  ELSE [exits |-> FALSE, lines |-> <<>>]

(***************************************************************************)
(* The inputs the model draws.                                             *)
(***************************************************************************)
UserAlphabet == {"a", "Z", "7", "-", "@"}

\* usernames around the length limit: a run of "a" and a short ending
LongUsers ==
  { Repeat("a", k - Len(s)) \o s :
      k \in {MaxTailRepeat, MaxTailRepeat + 1, MaxTailRepeat + 2},
      s \in SeqsUpTo(UserAlphabet, 2) }

\* a non-ASCII letter, the Kelvin sign (which lower-cases to k), a trailing
\* line feed, and the characters that would change a URL
OddUsers ==
  { <<"U+00E9">>, <<"U+212A">>, <<"a", "\n">>, <<"a", "_", "b">>,
    <<"a", "/", "b">>, <<"a", "?", "b">> }

FetchUsers == SeqsUpTo(UserAlphabet, MaxUserLen) \cup LongUsers \cup OddUsers

\* no token, the empty string, a token
FetchTokens == {Undef, Str(<<>>), Str(<<"ghp_token">>)}

OkBodies ==
  {NotArray("object"), NotArray("null")}
    \cup {ArrayOf(items) : items \in SeqsUpTo(RawRepoValues, MaxBody)}

OkResponses ==
  {[ok |-> TRUE, status |-> 200, statusText |-> <<"OK">>, body |-> b] :
     b \in OkBodies}

FailedResponses ==
  {[ok |-> FALSE, status |-> st, statusText |-> tx, body |-> NotArray("object")] :
     st \in {404, 403, 500},
     tx \in {<<>>, <<"Not Found">>, <<"Internal Server Error">>}}

Responses == OkResponses \cup FailedResponses

NoResponse == [ok |-> FALSE, status |-> 0, statusText |-> <<>>, body |-> NotArray("undefined")]

PromptRepos ==
  {NotArray("null"), NotArray("object"), NotArray("string")}
    \cup {ArrayOf(items) : items \in SeqsUpTo(RepoValues, MaxRepos)}

PromptUsers ==
  {Str(<<>>), Str(<<" ", " ">>), Null, Num(123), Str(<<"u">>), Str(<<" ", "o", "c", "t">>)}

PromptCounts ==
  {Num(k) : k \in -1..MaxCount}
    \cup {Undef, Null, NaNVal, PosInf, NegInf, Str(<<"invalid">>)}

ImagePrompts == {<<"a prompt">>}

ApiKeys == {<<"gateway-key">>}

\* the outputDir argument: left out, a plain name, a path to normalize
OutputDirs == {Undef, Str(<<"out">>), Str(<<".", "/", "out", "/">>)}

FilePayloads ==
  { FilePayload(<<"image", "/", "png">>, "png bytes"),
    FilePayload(<<"image", "/">>, "raw bytes"),
    FilePayload(<<"text", "/", "plain">>, "text bytes") }

FinishReasons == {<<"stop">>, <<"content-filter">>}

\* results without files (files not set, files empty) and results with files
ProviderResults ==
  {ProviderResult(has, <<>>, reason) : has \in BOOLEAN, reason \in FinishReasons}
    \cup {ProviderResult(TRUE, fs, <<"stop">>) :
            fs \in SeqsUpTo(FilePayloads, MaxFiles) \ {<<>>}}

NoProviderResult == ProviderResult(FALSE, <<>>, <<>>)

\* what generateText rejects with: an Error, a value that is no Error
ProviderFailures == {Threw(<<"Unauthorized">>), ThrewValue(<<"aborted">>)}

MkdirFailures == {Threw(<<"EACCES: permission denied, mkdir">>)}

\* what fs.writeFile rejects with, and whether the file it opened is left
\* behind: open fails before the file exists, a write fails after
WriteFailures ==
  { [error |-> Threw(<<"EACCES: permission denied, open">>), fileLeft |-> FALSE],
    [error |-> Threw(<<"ENOSPC: no space left on device, write">>), fileLeft |-> TRUE] }

\* values of Date.now()
Timestamps == {1, 2}

\* the arguments of generateGithubComic
ComicUsers == {<<"a">>, <<"a", "-", "Z">>, <<"a", "@">>}

ComicTokens == {Undef, Str(<<"ghp_token">>)}

ComicRepoCounts == {Undef, Num(0), Num(1), Num(2)}

ComicOutputDirs == {Undef, Str(<<"out">>)}

\* what GitHub answers under generateGithubComic: a failure status, a body
\* that is no array, arrays of repositories with and without a name
ComicResponses ==
  {res \in FailedResponses : res.statusText = <<"Not Found">>}
    \cup {res \in OkResponses :
            IsArray(res.body) =>
              \A i \in 1..Len(res.body.items) :
                res.body.items[i].description \in {Str(<<"first">>), Null}
                  \/ res.body.items[i].name = Undef}

\* the command line and the environment of the generate command
CliUsers == {<<"a">>, <<"a", "@">>}

\* --api-key: not given, empty, given
CliKeyOptions == {Undef, Str(<<>>), Str(<<"flag-key">>)}

\* AI_GATEWAY_API_KEY: not set, set
CliKeyEnvs == {Undef, Str(<<"env-key">>)}

CliTokenOptions == {Undef, Str(<<"flag-token">>)}

CliTokenEnvs == {Str(<<"env-token">>)}

CountAlphabet == {"0", "1", "5", "a", "-", ".", " "}

\* --count: commander passes the text as it was typed
CliCounts == SeqsUpTo(CountAlphabet, MaxCountLen)

CliOutputs == {<<"out">>}

\* what GitHub answers under the generate command
CliResponses ==
  {res \in ComicResponses :
     /\ res.status \in {200, 404}
     /\ IsArray(res.body) =>
          /\ Len(res.body.items) <= 1
          /\ \A i \in 1..Len(res.body.items) : res.body.items[i].description # Null}

(***************************************************************************)
(* The state of one invocation.                                            *)
(***************************************************************************)
VARIABLES
  pc,        \* "idle", "awaitResponse" (suspended at `await fetch`), "done"
  op,        \* the function invoked: "none", "fetchRepositories", "createComicPrompt"
  args,      \* its arguments
  requests,  \* the requests handed to fetch, in order
  response,  \* the response fetch resolved with
  bodyRead,  \* whether res.json() was called
  outcome,   \* what the function threw or returned
  imageArgs,     \* the arguments of generateComicImage
  providerCalls, \* the calls of generateText, in order
  generated,     \* the result generateText resolved with
  dirs,          \* the directories created
  files,         \* the files on disk: path, and whether written in full
  target,        \* filePath and fileName, once computed
  raised,        \* what was thrown inside the try block of generateComicImage
  stages,        \* generateGithubComic: the functions called, in order
  stageResults,  \* generateGithubComic: what each of them threw or returned
  cliPc,         \* the generate command: where its action is
  cliArgs,       \* the generate command: its arguments, options, environment
  exitCode,      \* the exit status of the process
  stdout,        \* the lines written by console.log
  stderr,        \* the lines written by console.error
  calls          \* concurrent invocations of generateComicImage, by number

fetchVars == <<requests, response, bodyRead>>

imageVars == <<imageArgs, providerCalls, generated, dirs, files, target, raised>>

comicVars == <<stages, stageResults>>

cliVars == <<cliPc, cliArgs, exitCode, stdout, stderr>>

vars == <<pc, op, args, outcome, fetchVars, imageVars, comicVars, cliVars, calls>>

CliArguments(username, optKey, envKey, optToken, envToken, count, output) ==
  [username |-> username, apiKey |-> optKey, envKey |-> envKey,
   token |-> optToken, envToken |-> envToken, count |-> count, output |-> output]

ImageArguments(prompt, apiKey, outputDir) ==
  [prompt |-> prompt, apiKey |-> apiKey, outputDir |-> outputDir]

Arguments(user, token, repos, count) ==
  [user |-> user, token |-> token, repos |-> repos, count |-> count]

InitInvocation ==
  /\ pc = "idle"
  /\ op = "none"
  /\ args = Arguments(Undef, Undef, NotArray("undefined"), Undef)
  /\ requests = <<>>
  /\ response = NoResponse
  /\ bodyRead = FALSE
  /\ outcome = NoOutcome
  /\ imageArgs = ImageArguments(<<>>, <<>>, <<>>)
  /\ providerCalls = <<>>
  /\ generated = NoProviderResult
  /\ dirs = {}
  /\ files = {}
  /\ target = NoImage
  /\ raised = NoOutcome
  /\ stages = <<>>
  /\ stageResults = <<>>
  /\ cliPc = "none"
  /\ cliArgs = CliArguments(<<>>, Undef, Undef, Undef, Undef, <<>>, <<>>)
  /\ exitCode = 0
  /\ stdout = <<>>
  /\ stderr = <<>>

Init ==
  /\ InitInvocation
  /\ calls = <<>>

\* FetchRepositoriesCall sending the request before it checks the username
FetchRepositoriesCallRequestFirst(user, token) ==
  /\ pc = "idle"
  /\ op' = "fetchRepositories"
  /\ args' = Arguments(Str(user), token, NotArray("undefined"), Undef)
  /\ requests' = Append(requests, Request(user, token))
  /\ IF ~UsernameRegexTest(user)
     THEN /\ outcome' = Threw(InvalidUsernameMessage(user))
          /\ pc' = "done"
     ELSE /\ outcome' = outcome
          /\ pc' = "awaitResponse"
  /\ UNCHANGED <<response, bodyRead, imageVars, comicVars>>

\* fetchRepositories(user, token) up to `await fetch(url, {headers})`
FetchRepositoriesCall(user, token) ==
  /\ pc = "idle"
  /\ op' = "fetchRepositories"
  /\ args' = Arguments(Str(user), token, NotArray("undefined"), Undef)
  /\ IF ~UsernameRegexTest(user)
     THEN /\ outcome' = Threw(InvalidUsernameMessage(user))
          /\ requests' = requests
          /\ pc' = "done"
     ELSE /\ outcome' = outcome
          /\ requests' = Append(requests, Request(user, token))
          /\ pc' = "awaitResponse"
  /\ UNCHANGED <<response, bodyRead, imageVars, comicVars>>

\* fetchRepositories from the response of fetch to its end
FetchRepositoriesResume(res) ==
  /\ pc = "awaitResponse"
  /\ response' = res
  /\ bodyRead' = ReadsBody(res)
  /\ outcome' = FetchOutcome(args.user.s, res)
  /\ pc' = "done"
  /\ UNCHANGED <<op, args, requests, imageVars, comicVars>>

\* createComicPrompt(repos, user, count)
CreateComicPromptCall(repos, user, count) ==
  /\ pc = "idle"
  /\ op' = "createComicPrompt"
  /\ args' = Arguments(user, Undef, repos, count)
  /\ outcome' = CreateComicPrompt(repos, user, count)
  /\ pc' = "done"
  /\ UNCHANGED <<fetchVars, imageVars, comicVars>>

\* the end of generateComicImage with result: of the run too, or, under
\* generateGithubComic, of its third stage
Complete(result) ==
  /\ pc' = "done"
  /\ IF op = "generateGithubComic"
     THEN /\ stageResults' = Append(stageResults, result)
          /\ outcome' = Propagate(result)
     ELSE /\ stageResults' = stageResults
          /\ outcome' = result
  /\ UNCHANGED <<op, args, fetchVars, imageArgs, providerCalls, stages>>

\* thrown is thrown inside the try block: the catch block decides what
\* generateComicImage throws
Fail(thrown) ==
  /\ raised' = thrown
  /\ Complete(CatchAndWrap(thrown))

\* generateComicImage(prompt, apiKey, outputDir) up to `await generateText`
GenerateComicImageCall(prompt, apiKey, outputDir) ==
  /\ pc = "idle"
  /\ op' = "generateComicImage"
  /\ imageArgs' = ImageArguments(prompt, apiKey, OutputDirOption(outputDir))
  /\ providerCalls' = Append(providerCalls, ProviderCall(prompt, apiKey))
  /\ pc' = "awaitProvider"
  /\ UNCHANGED <<args, outcome, fetchVars, generated, dirs, files, target, raised,
                 comicVars>>

\* generateText resolves: the check for files, up to `await fs.mkdir`
ProviderResolves(result) ==
  /\ pc = "awaitProvider"
  /\ generated' = result
  /\ IF NoFiles(result)
     THEN Fail(Threw(NoImagesMessage(result)))
     ELSE /\ pc' = "awaitMkdir"
          /\ UNCHANGED <<op, args, outcome, fetchVars, imageArgs, providerCalls,
                         raised, comicVars>>
  /\ UNCHANGED <<dirs, files, target>>

\* generateText rejects
ProviderRejects(thrown) ==
  /\ pc = "awaitProvider"
  /\ Fail(thrown)
  /\ UNCHANGED <<generated, dirs, files, target>>

\* fs.mkdir resolves: the check of the first file, the file name, up to
\* `await fs.writeFile`
MkdirResolves(now) ==
  /\ pc = "awaitMkdir"
  /\ dirs' = dirs \cup {NormalizePath(imageArgs.outputDir)}
  /\ IF ~StartsWithImage(ExaminedFile(generated).mediaType)
     THEN /\ Fail(Threw(InvalidFileTypeMessage(ExaminedFile(generated).mediaType)))
          /\ target' = target
     ELSE /\ target' = TargetOf(imageArgs.outputDir, ExaminedFile(generated).mediaType, now)
          /\ pc' = "awaitWrite"
          /\ UNCHANGED <<op, args, outcome, fetchVars, imageArgs, providerCalls,
                         raised, comicVars>>
  /\ UNCHANGED <<generated, files>>

\* fs.mkdir rejects
MkdirRejects(thrown) ==
  /\ pc = "awaitMkdir"
  /\ Fail(thrown)
  /\ UNCHANGED <<generated, dirs, files, target>>

\* a file on disk
FileOnDisk(path, data, complete) == [path |-> path, data |-> data, complete |-> complete]

\* fs.writeFile resolves: the result is returned
WriteResolves ==
  /\ pc = "awaitWrite"
  /\ files' = files \cup {FileOnDisk(target.filePath, ExaminedFile(generated).uint8Array, TRUE)}
  /\ Complete(ReturnedImage(target))
  /\ UNCHANGED <<generated, dirs, target, raised>>

\* fs.writeFile rejects
WriteRejects(failure) ==
  /\ pc = "awaitWrite"
  /\ files' = IF failure.fileLeft
              THEN files \cup {FileOnDisk(target.filePath, "", FALSE)}
              ELSE files
  /\ Fail(failure.error)
  /\ UNCHANGED <<generated, dirs, target>>

\* GenerateGithubComicCall checking repoCount before it calls fetchRepositories
GenerateGithubComicCallCountFirst(user, token, apiKey, repoCount, outputDir) ==
  LET checked == IF ~UsernameRegexTest(user)
                 THEN Threw(InvalidUsernameMessage(user))
                 ELSE IF CountRejected(RepoCountOption(repoCount))
                 THEN Threw(<<"count must be a positive number">>)
                 ELSE NoOutcome
  IN  /\ pc = "idle"
      /\ op' = "generateGithubComic"
      /\ args' = Arguments(Str(user), token, NotArray("undefined"),
                           RepoCountOption(repoCount))
      /\ imageArgs' = ImageArguments(<<>>, apiKey, OutputDirOption(outputDir))
      /\ stages' = <<"fetchRepositories">>
      /\ IF checked.kind = "threw"
         THEN /\ stageResults' = <<checked>>
              /\ outcome' = Propagate(checked)
              /\ requests' = requests
              /\ pc' = "done"
         ELSE /\ stageResults' = stageResults
              /\ outcome' = outcome
              /\ requests' = Append(requests, Request(user, token))
              /\ pc' = "comicAwaitResponse"
      /\ UNCHANGED <<response, bodyRead, providerCalls, generated, dirs, files,
                     target, raised>>

\* generateGithubComic(user, config, options) up to `await fetch` in
\* fetchRepositories
GenerateGithubComicCall(user, token, apiKey, repoCount, outputDir) ==
  LET checked == IF ~UsernameRegexTest(user)
                 THEN Threw(InvalidUsernameMessage(user))
                 ELSE NoOutcome
  IN  /\ pc = "idle"
      /\ op' = "generateGithubComic"
      /\ args' = Arguments(Str(user), token, NotArray("undefined"),
                           RepoCountOption(repoCount))
      /\ imageArgs' = ImageArguments(<<>>, apiKey, OutputDirOption(outputDir))
      /\ stages' = <<"fetchRepositories">>
      /\ IF checked.kind = "threw"
         THEN /\ stageResults' = <<checked>>
              /\ outcome' = Propagate(checked)
              /\ requests' = requests
              /\ pc' = "done"
         ELSE /\ stageResults' = stageResults
              /\ outcome' = outcome
              /\ requests' = Append(requests, Request(user, token))
              /\ pc' = "comicAwaitResponse"
      /\ UNCHANGED <<response, bodyRead, providerCalls, generated, dirs, files,
                     target, raised>>

\* generateGithubComic from the response of fetch: the rest of
\* fetchRepositories, createComicPrompt, generateComicImage up to
\* `await generateText`
GenerateGithubComicResume(res) ==
  LET fetched == FetchOutcome(args.user.s, res)
      built == CreateComicPrompt(ArrayOf(fetched.repos), args.user, args.count)
  IN  /\ pc = "comicAwaitResponse"
      /\ response' = res
      /\ bodyRead' = ReadsBody(res)
      /\ IF fetched.kind # "returned"
         THEN /\ stages' = stages
              /\ stageResults' = Append(stageResults, fetched)
              /\ outcome' = Propagate(fetched)
              /\ pc' = "done"
              /\ UNCHANGED <<imageArgs, providerCalls>>
         ELSE IF built.kind # "returned"
         THEN /\ stages' = Append(stages, "createComicPrompt")
              /\ stageResults' = stageResults \o <<fetched, built>>
              /\ outcome' = Propagate(built)
              /\ pc' = "done"
              /\ UNCHANGED <<imageArgs, providerCalls>>
         ELSE /\ stages' = stages \o <<"createComicPrompt", "generateComicImage">>
              /\ stageResults' = stageResults \o <<fetched, built>>
              /\ outcome' = outcome
              /\ imageArgs' = [imageArgs EXCEPT !.prompt = built.text]
              /\ providerCalls' =
                   Append(providerCalls, ProviderCall(built.text, imageArgs.apiKey))
              /\ pc' = "awaitProvider"
      /\ UNCHANGED <<op, args, requests, generated, dirs, files, target, raised>>

\* the action of the generate command up to `await generateGithubComic`,
\* or to process.exit(1)
CliGenerateCall(username, optKey, envKey, optToken, envToken, count, output) ==
  LET check == CliCheck(optKey, envKey, count)
  IN  /\ pc = "idle"
      /\ cliPc = "none"
      /\ cliArgs' = CliArguments(username, optKey, envKey, optToken, envToken,
                                 count, output)
      /\ IF check.exits
         THEN /\ stderr' = stderr \o check.lines
              /\ stdout' = stdout
              /\ exitCode' = 1
              /\ cliPc' = "exited"
              /\ op' = "generate"
              /\ pc' = "done"
              /\ UNCHANGED <<args, outcome, fetchVars, imageVars, comicVars>>
         ELSE /\ stdout' = stdout \o BannerLines(username, ParseInt(count), output)
              /\ stderr' = stderr
              /\ exitCode' = exitCode
              /\ cliPc' = "awaitComic"
              /\ GenerateGithubComicCall(username,
                                         ResolvedToken(optToken, envToken),
                                         ResolvedApiKey(optKey, envKey).s,
                                         ParseInt(count), Str(output))

\* the action of the generate command once generateGithubComic settled: the
\* result is printed, or the catch block prints the error and exits
CliGenerateResume ==
  /\ cliPc = "awaitComic"
  /\ pc = "done"
  /\ IF outcome.kind = "returned"
     THEN /\ stdout' = stdout \o SuccessLines(outcome.image)
          /\ stderr' = stderr
          /\ exitCode' = exitCode
     ELSE /\ stderr' = stderr \o ErrorLines(outcome)
          /\ stdout' = stdout
          /\ exitCode' = 1
  /\ cliPc' = "exited"
  /\ UNCHANGED <<pc, op, args, outcome, fetchVars, imageVars, comicVars, cliArgs>>

\* a caller invokes fetchRepositories
CallFetchRepositories ==
  /\ pc = "idle"
  /\ \E user \in FetchUsers, token \in FetchTokens :
       FetchRepositoriesCall(user, token)

\* fetch resolves with a response
ResolveFetch ==
  /\ pc = "awaitResponse"
  /\ \E res \in Responses : FetchRepositoriesResume(res)

\* a caller invokes createComicPrompt
CallCreateComicPrompt ==
  /\ pc = "idle"
  /\ \E repos \in PromptRepos, user \in PromptUsers, count \in PromptCounts :
       CreateComicPromptCall(repos, user, count)

\* a caller invokes generateComicImage
CallGenerateComicImage ==
  /\ pc = "idle"
  /\ \E prompt \in ImagePrompts, apiKey \in ApiKeys, outputDir \in OutputDirs :
       GenerateComicImageCall(prompt, apiKey, outputDir)

\* generateText resolves or rejects
ResolveProvider ==
  /\ pc = "awaitProvider"
  /\ \/ \E result \in ProviderResults : ProviderResolves(result)
     \/ \E thrown \in ProviderFailures : ProviderRejects(thrown)

\* fs.mkdir resolves or rejects
ResolveMkdir ==
  /\ pc = "awaitMkdir"
  /\ \/ \E now \in Timestamps : MkdirResolves(now)
     \/ \E thrown \in MkdirFailures : MkdirRejects(thrown)

\* fs.writeFile resolves or rejects
ResolveWrite ==
  /\ pc = "awaitWrite"
  /\ \/ WriteResolves
     \/ \E failure \in WriteFailures : WriteRejects(failure)

\* a caller invokes generateGithubComic
CallGenerateGithubComic ==
  /\ pc = "idle"
  /\ \E user \in ComicUsers, token \in ComicTokens, apiKey \in ApiKeys,
        repoCount \in ComicRepoCounts, outputDir \in ComicOutputDirs :
       GenerateGithubComicCall(user, token, apiKey, repoCount, outputDir)

\* fetch resolves with a response under generateGithubComic
ResolveComicFetch ==
  /\ pc = "comicAwaitResponse"
  /\ \E res \in ComicResponses : GenerateGithubComicResume(res)

\* the generate command is run
RunGenerate ==
  /\ pc = "idle"
  /\ \E username \in CliUsers, optKey \in CliKeyOptions, envKey \in CliKeyEnvs,
        optToken \in CliTokenOptions, envToken \in CliTokenEnvs,
        count \in CliCounts, output \in CliOutputs :
       CliGenerateCall(username, optKey, envKey, optToken, envToken, count, output)

\* fetch resolves with a response under the generate command
ResolveCliFetch ==
  /\ pc = "comicAwaitResponse"
  /\ cliPc = "awaitComic"
  /\ \E res \in CliResponses : GenerateGithubComicResume(res)

\* a step of the library under a caller that is not the generate command
LibraryCall(step) == cliPc = "none" /\ step /\ UNCHANGED <<cliVars, calls>>

\* a step of generateComicImage, under the generate command or not
ImageStep(step) == step /\ UNCHANGED <<cliVars, calls>>

\* a step of the generate command
CommandStep(step) == step /\ UNCHANGED calls

Next ==
  \/ LibraryCall(CallFetchRepositories)
  \/ LibraryCall(ResolveFetch)
  \/ LibraryCall(CallCreateComicPrompt)
  \/ LibraryCall(CallGenerateComicImage)
  \/ ImageStep(ResolveProvider)
  \/ ImageStep(ResolveMkdir)
  \/ ImageStep(ResolveWrite)
  \/ LibraryCall(CallGenerateGithubComic)
  \/ LibraryCall(ResolveComicFetch)
  \/ CommandStep(RunGenerate)
  \/ ImageStep(ResolveCliFetch)
  \/ CommandStep(CliGenerateResume)

Spec == Init /\ [][Next]_vars

(***************************************************************************)
(* Two invocations of generateComicImage at once, from the point where     *)
(* generateText resolved with an image as its first file.  They share the  *)
(* file system and nothing else: index.ts has no module-level variable.    *)
(***************************************************************************)
ConcurrentDirs == {<<"out">>, <<".", "/", "out", "/">>, <<"other">>}

ConcurrentFiles(i) ==
  { FilePayload(<<"image", "/", "png">>, <<"bytes of call", i>>),
    FilePayload(<<"image", "/">>, <<"bytes of call", i>>),
    FilePayload(<<"image", "/", "gif">>, <<"bytes of call", i>>) }

\* one invocation: its outputDir, result.files[0], where it is, the value
\* Date.now() gave it, what it returned
Call(outputDir, file, at, now, result) ==
  [outputDir |-> outputDir, file |-> file, pc |-> at, now |-> now,
   result |-> result]

\* fs.writeFile(path, data) resolving on a disk: the file at path is
\* created or replaced
WriteFile(disk, path, data) ==
  {f \in disk : f.path # path} \cup {FileOnDisk(path, data, TRUE)}

InitConcurrent ==
  /\ InitInvocation
  /\ calls \in {<<first, second>> :
                  first \in {Call(dir, file, "awaitMkdir", 0, NoImage) :
                               dir \in ConcurrentDirs, file \in ConcurrentFiles(1)},
                  second \in {Call(dir, file, "awaitMkdir", 0, NoImage) :
                                dir \in ConcurrentDirs, file \in ConcurrentFiles(2)}}

\* fs.mkdir resolves for invocation i: up to `await fs.writeFile`
ConcurrentMkdirResolves(i, now) ==
  /\ calls[i].pc = "awaitMkdir"
  /\ dirs' = dirs \cup {NormalizePath(calls[i].outputDir)}
  /\ calls' = [calls EXCEPT ![i].pc = "awaitWrite", ![i].now = now]
  /\ UNCHANGED <<pc, op, args, outcome, fetchVars, imageArgs, providerCalls,
                 generated, files, target, raised, comicVars, cliVars>>

\* fs.writeFile resolves for invocation i: it returns filePath and fileName
ConcurrentWriteResolves(i) ==
  LET image == TargetOf(calls[i].outputDir, calls[i].file.mediaType, calls[i].now)
  IN  /\ calls[i].pc = "awaitWrite"
      /\ files' = WriteFile(files, image.filePath, calls[i].file.uint8Array)
      /\ calls' = [calls EXCEPT ![i].pc = "done", ![i].result = image]
      /\ UNCHANGED <<pc, op, args, outcome, fetchVars, imageArgs, providerCalls,
                     generated, dirs, target, raised, comicVars, cliVars>>

ResolveConcurrentMkdir ==
  \E i \in DOMAIN calls : \E now \in Timestamps : ConcurrentMkdirResolves(i, now)

ResolveConcurrentWrite ==
  \E i \in DOMAIN calls : ConcurrentWriteResolves(i)

NextConcurrent ==
  \/ ResolveConcurrentMkdir
  \/ ResolveConcurrentWrite

SpecConcurrent == InitConcurrent /\ [][NextConcurrent]_vars

(***************************************************************************)
(* Properties of fetchRepositories.                                        *)
(***************************************************************************)
\* the GitHub login grammar, stated on the string itself
LoginGrammar(u) ==
  /\ Len(u) >= 1
  /\ Len(u) <= 39
  /\ \A i \in 1..Len(u) : u[i] \in LowerCase \cup UpperCase \cup Digits \cup {"-"}
  /\ u[1] # "-"
  /\ u[Len(u)] # "-"
  /\ \A i \in 1..(Len(u) - 1) : ~(u[i] = "-" /\ u[i + 1] = "-")

FetchInvoked == op = "fetchRepositories"

FetchUser == args.user.s

\* C1: fetchRepositories called with a username outside the login grammar
\* fails with "Invalid GitHub username: <input>", and the invocation never
\* hands a request to fetch.
C1_InvalidUsernameFailsBeforeRequest ==
  (FetchInvoked /\ ~LoginGrammar(FetchUser)) =>
    /\ pc = "done"
    /\ outcome.kind = "threw"
    /\ outcome.msg = <<"Invalid GitHub username: ">> \o FetchUser
    /\ requests = <<>>
    /\ ~bodyRead

\* an invalid username containing "@" was rejected
C1_Witness ==
  /\ FetchInvoked
  /\ \E i \in 1..Len(FetchUser) : FetchUser[i] = "@"
  /\ outcome.kind = "threw"
  /\ requests = <<>>

FetchResolved == FetchInvoked /\ pc = "done" /\ requests # <<>>

\* the reason C3 gives for a status
C3_Reason ==
  CASE response.status = 404 -> <<"User not found">>
    [] response.status = 403 ->
         <<"API rate limit exceeded. Use GITHUB_TOKEN for higher limits.">>
    [] OTHER -> response.statusText

\* C3: on a response that is not a success, fetchRepositories fails with
\* "Failed to fetch repos for <user>: <status> <reason>", the reason being
\* "User not found" for 404, the rate-limit hint for 403 and the raw status
\* text otherwise, and the body of the response is not read.
C3_FailureStatusMessage ==
  (FetchResolved /\ ~response.ok) =>
    /\ outcome.kind = "threw"
    /\ outcome.msg =
         <<"Failed to fetch repos for ">> \o FetchUser
           \o <<": ", ToString(response.status), " ">> \o C3_Reason
    /\ ~bodyRead

\* a 404 whose status text is "Not Found" was reported as "User not found"
C3_Witness ==
  /\ FetchResolved
  /\ response.status = 404
  /\ response.statusText = <<"Not Found">>
  /\ outcome.kind = "threw"

\* C4: on a success response fetchRepositories returns a list if and only
\* if the body is a non-empty sequence; a body that is no sequence fails
\* with "Invalid response from GitHub API", an empty sequence fails with
\* "User '<username>' has no public repositories"; no empty list is returned.
C4_ReturnsIffNonEmptySequence ==
  (FetchResolved /\ response.ok) =>
    /\ outcome.kind = "returned" <=>
         (response.body.t = "array" /\ Len(response.body.items) > 0)
    /\ response.body.t # "array" =>
         (outcome.kind = "threw"
            /\ outcome.msg = <<"Invalid response from GitHub API">>)
    /\ (response.body.t = "array" /\ response.body.items = <<>>) =>
         (outcome.kind = "threw"
            /\ outcome.msg =
                 <<"User '">> \o FetchUser \o <<"' has no public repositories">>)
    /\ outcome.kind = "returned" => outcome.repos # <<>>

\* a success response with an empty sequence was turned into a failure
C4_Witness ==
  /\ FetchResolved
  /\ response.ok
  /\ response.body.t = "array"
  /\ response.body.items = <<>>
  /\ outcome.kind = "threw"

\* C5: the list returned has the length and order of the response sequence,
\* and element i carries the name, description, star count and language of
\* response element i unchanged; an element without a name is returned too.
C5_ElementsPassThrough ==
  (FetchInvoked /\ outcome.kind = "returned") =>
    /\ Len(outcome.repos) = Len(response.body.items)
    /\ \A i \in 1..Len(response.body.items) :
         /\ outcome.repos[i].name = response.body.items[i].name
         /\ outcome.repos[i].description = response.body.items[i].description
         /\ outcome.repos[i].stargazers_count =
              response.body.items[i].stargazers_count
         /\ outcome.repos[i].language = response.body.items[i].language

\* two elements were returned, the second of them without a name
C5_Witness ==
  /\ FetchInvoked
  /\ outcome.kind = "returned"
  /\ Len(outcome.repos) = 2
  /\ outcome.repos[1].name = Str(<<"repo1">>)
  /\ outcome.repos[2].name = Undef

\* the headers of the request that was sent
SentHeaders == requests[1].headers

\* C6 as claimed: the request carries Authorization "Bearer <token>"
\* whenever a token is supplied, and no Authorization header when none is.
C6_BearerWheneverSupplied ==
  (FetchInvoked /\ requests # <<>>) =>
    /\ args.token.t # "undefined" =>
         /\ "Authorization" \in DOMAIN SentHeaders
         /\ SentHeaders["Authorization"] = <<"Bearer ">> \o args.token.s
    /\ args.token.t = "undefined" => "Authorization" \notin DOMAIN SentHeaders

\* C6: the request carries Authorization "Bearer <token>" whenever a
\* non-empty token is supplied, and no Authorization header when the token
\* is absent or is the empty string.
C6_BearerIffNonEmptyToken ==
  (FetchInvoked /\ requests # <<>>) =>
    /\ (args.token.t = "string" /\ args.token.s # <<>>) =>
         /\ "Authorization" \in DOMAIN SentHeaders
         /\ SentHeaders["Authorization"] = <<"Bearer ">> \o args.token.s
    /\ (args.token.t = "undefined" \/ args.token.s = <<>>) =>
         "Authorization" \notin DOMAIN SentHeaders

\* a request was sent for a call that passed the empty string as token
C6_Witness ==
  /\ FetchInvoked
  /\ requests # <<>>
  /\ args.token = Str(<<>>)
  /\ "Authorization" \notin DOMAIN SentHeaders

(***************************************************************************)
(* Properties of createComicPrompt.                                        *)
(***************************************************************************)
PromptInvoked == op = "createComicPrompt"

ReposInvalid == args.repos.t # "array"

UserInvalid ==
  \/ args.user.t # "string"
  \/ \A i \in 1..Len(args.user.s) : args.user.s[i] \in {" ", "\t", "\n"}

\* a count was passed (an undefined count takes the default)
CountGiven == args.count.t # "undefined"

CountFiniteAtLeastOne == args.count.t = "number" /\ args.count.n >= 1

\* the counts the validation lets through
CountAccepted ==
  \/ ~CountGiven
  \/ CountFiniteAtLeastOne
  \/ args.count.t = "Infinity"

\* min(count, length) for a count the validation lets through
SelectedLength ==
  IF ~CountGiven THEN Min(3, Len(args.repos.items))
  ELSE IF args.count.t = "Infinity" THEN Len(args.repos.items)
  ELSE Min(args.count.n, Len(args.repos.items))

\* C7: createComicPrompt validates repositories, then username, then count,
\* then the names of the selected repositories: the error reported is the
\* one of the earliest invalid input in that order.
C7_ValidationOrder ==
  PromptInvoked =>
    /\ ReposInvalid => outcome = Threw(<<"repos must be an array">>)
    /\ (~ReposInvalid /\ UserInvalid) =>
         outcome = Threw(<<"user must be a non-empty string">>)
    /\ (~ReposInvalid /\ ~UserInvalid /\ ~CountAccepted) =>
         outcome = Threw(<<"count must be a positive number">>)
    /\ (~ReposInvalid /\ ~UserInvalid /\ CountAccepted /\ outcome.kind = "threw") =>
         /\ Head(outcome.msg) = "Repository at index "
         /\ outcome.msg[3] = " is missing required field: name"

\* repos, user and count were invalid at once and the repos error came out
C7_Witness ==
  /\ PromptInvoked
  /\ ReposInvalid
  /\ UserInvalid
  /\ args.count = Num(0)
  /\ outcome.msg = <<"repos must be an array">>

\* C8 as claimed: every count that is not a finite number >= 1 (positive
\* infinity among them) is rejected with "count must be a positive number".
C8_RejectsEveryNonFiniteCount ==
  (PromptInvoked /\ ~ReposInvalid /\ ~UserInvalid /\ CountGiven
     /\ ~CountFiniteAtLeastOne) =>
    outcome = Threw(<<"count must be a positive number">>)

\* C8: a count that is passed is rejected with "count must be a positive
\* number" exactly when it is not a number >= 1: zero, negative numbers,
\* NaN, values that are no numbers, negative infinity.  Positive infinity is
\* not rejected.
C8_RejectsExactlyNonPositive ==
  (PromptInvoked /\ ~ReposInvalid /\ ~UserInvalid /\ CountGiven) =>
    (outcome = Threw(<<"count must be a positive number">>)
       <=> ~(CountFiniteAtLeastOne \/ args.count.t = "Infinity"))

\* a call with count positive infinity returned a prompt
C8_Witness ==
  /\ PromptInvoked
  /\ args.count = PosInf
  /\ outcome.kind = "returned"

\* the position of the first token tok of text
IndexOf(text, tok) == MinOf({i \in 1..Len(text) : text[i] = tok})

\* the tokens of a prompt between the list heading and the style paragraph
ListingOf(text) ==
  SubSeq(text, IndexOf(text, PromptListHeading) + 1, IndexOf(text, PromptStyle) - 1)

\* a text cut at its line feeds
RECURSIVE SplitLines(_)
SplitLines(text) ==
  LET feeds == {i \in 1..Len(text) : text[i] = "\n"}
  IN  IF feeds = {} THEN <<text>>
      ELSE <<SubSeq(text, 1, MinOf(feeds) - 1)>>
             \o SplitLines(SubSeq(text, MinOf(feeds) + 1, Len(text)))

\* the repository lines of the prompt that was returned
PromptLines ==
  IF ListingOf(outcome.text) = <<>> THEN <<>>
  ELSE SplitLines(ListingOf(outcome.text))

\* C9: for valid inputs the repository lines of the prompt are the first
\* min(count, length) repositories in their order, numbered 1, 2, ...; no
\* repository at index count or beyond appears.
C9_FirstCountInOrder ==
  (PromptInvoked /\ outcome.kind = "returned") =>
    /\ Len(PromptLines) = SelectedLength
    /\ \A k \in 1..SelectedLength :
         SubSeq(PromptLines[k], 1, 2 + Len(args.repos.items[k].name.s)) =
           <<ToString(k), ". ">> \o args.repos.items[k].name.s

\* a list of three was cut to its first two repositories
C9_Witness ==
  /\ PromptInvoked
  /\ outcome.kind = "returned"
  /\ args.count = Num(2)
  /\ Len(args.repos.items) = 3
  /\ args.repos.items[1].name # args.repos.items[2].name
  /\ Len(PromptLines) = 2

\* the 0-based positions, among the selected repositories, of those whose
\* name is absent or is no string
AbsentOrNotString ==
  {i - 1 : i \in {j \in 1..SelectedLength : args.repos.items[j].name.t # "string"}}

\* ... and of those whose name is absent, no string or the empty string
AbsentNotStringOrEmpty ==
  {i - 1 : i \in {j \in 1..SelectedLength :
     \/ args.repos.items[j].name.t # "string"
     \/ args.repos.items[j].name.s = <<>>}}

NameCheckReached == PromptInvoked /\ ~ReposInvalid /\ ~UserInvalid /\ CountAccepted

\* C10 as claimed: the call fails with "Repository at index <idx> is missing
\* required field: name" if and only if a selected repository has a name
\* that is absent or no string, idx the position of the first one.
C10_FailsIffAbsentOrNotString ==
  NameCheckReached =>
    IF AbsentOrNotString = {} THEN outcome.kind = "returned"
    ELSE outcome =
           Threw(<<"Repository at index ", ToString(MinOf(AbsentOrNotString)),
                   " is missing required field: name">>)

\* C10: the call fails with "Repository at index <idx> is missing required
\* field: name" if and only if a selected repository has a name that is
\* absent, no string or the empty string; idx is the 0-based position of the
\* first one, and the repositories at index count or beyond are not checked.
C10_FailsIffNameMissingOrEmpty ==
  NameCheckReached =>
    IF AbsentNotStringOrEmpty = {} THEN outcome.kind = "returned"
    ELSE outcome =
           Threw(<<"Repository at index ",
                   ToString(MinOf(AbsentNotStringOrEmpty)),
                   " is missing required field: name">>)

\* the second of two selected repositories had no name, a third one beyond
\* count had none either
C10_Witness ==
  /\ PromptInvoked
  /\ args.count = Num(2)
  /\ Len(args.repos.items) = 3
  /\ args.repos.items[2].name = Undef
  /\ args.repos.items[3].name = Undef
  /\ outcome.msg =
       <<"Repository at index ", "1", " is missing required field: name">>

\* the selected repository of line k and that line
SelectedRepo(k) == args.repos.items[k]

PromptReturned == PromptInvoked /\ outcome.kind = "returned"

\* text holds the tokens of part next to each other
Contains(text, part) ==
  \E i \in 0..(Len(text) - Len(part)) : SubSeq(text, i + 1, i + Len(part)) = part

LineDescription(k) ==
  LET line == PromptLines[k]
      colon == MinOf({i \in 1..Len(line) : line[i] = ": "})
  IN  SubSeq(line, colon + 1, Len(line))

\* C12: a null description renders as "No description"; a description that
\* is a string, the empty string too, renders as it is.
C12_NullDescriptionOnly ==
  PromptReturned =>
    \A k \in 1..SelectedLength :
      LET d == SelectedRepo(k).description
      IN  /\ d.t = "null" => LineDescription(k) = <<"No description">>
          /\ d.t = "string" => LineDescription(k) = d.s

\* a prompt with a line for a null and a line for an empty description
C12_Witness ==
  /\ PromptReturned
  /\ SelectedLength = 2
  /\ SelectedRepo(1).description = Null
  /\ SelectedRepo(2).description = Str(<<>>)
  /\ LineDescription(2) = <<>>

\* the inputs that pass every check of createComicPrompt
PromptInputsValid == NameCheckReached /\ AbsentNotStringOrEmpty = {}

\* C13: for every valid input, an empty repository list too, the call
\* returns a prompt that holds "4-panel comic strip" and the username as it
\* was passed; with an empty list the listing is empty.
C13_PromptAlwaysNamesUser ==
  PromptInputsValid =>
    /\ outcome.kind = "returned"
    /\ Contains(outcome.text, <<"4-panel comic strip">>)
    /\ Contains(outcome.text, args.user.s)
    /\ args.repos.items = <<>> => ListingOf(outcome.text) = <<>>

\* the empty list and a username that starts with a blank
C13_Witness ==
  /\ PromptInputsValid
  /\ args.repos.items = <<>>
  /\ args.user = Str(<<" ", "o", "c", "t">>)
  /\ outcome.kind = "returned"

(***************************************************************************)
(* generateComicImage, alone or as the last stage of generateGithubComic.  *)
(***************************************************************************)
ImageInvoked == providerCalls # <<>>

\* generateText resolved
ProviderAnswered == generated # NoProviderResult

\* the run ended by throwing an Error
Failed == pc = "done" /\ outcome.kind = "threw"

\* C14: when the provider's result has no files (files absent or empty),
\* generateComicImage fails, the message holds the finish reason the
\* provider reported, and no image file is written.
C14_NoFilesFailsWithFinishReason ==
  (ProviderAnswered /\ NoFiles(generated)) =>
    /\ Failed
    /\ Contains(outcome.msg, generated.finishReason)
    /\ files = {}

C14_Witness ==
  /\ ProviderAnswered
  /\ generated.hasFiles
  /\ generated.files = <<>>
  /\ generated.finishReason = <<"content-filter">>
  /\ Failed

\* the first file of the provider's result is not an image
FirstFileNotImage ==
  /\ ProviderAnswered
  /\ ~NoFiles(generated)
  /\ ~StartsWithImage(generated.files[1].mediaType)

InvalidFileTypeText == <<"Invalid file type: ">>

\* C15: only the first file of the result is examined.  If its media type
\* does not begin with "image/", no file is written and no file name is
\* computed, whatever the later files are, and once the output directory
\* was created the call fails with "Invalid file type: <mediaType>"; that
\* error is raised only with the directory created, and never when the
\* first file is an image.
C15_OnlyFirstFileExamined ==
  /\ FirstFileNotImage =>
       /\ files = {}
       /\ target = NoImage
       /\ pc \in {"awaitMkdir", "done"}
       /\ pc = "awaitMkdir" => dirs = {}
       /\ pc = "done" => Failed
       /\ (pc = "done" /\ dirs # {}) =>
            Contains(outcome.msg,
                     InvalidFileTypeText \o generated.files[1].mediaType)
  /\ (ImageInvoked /\ Contains(outcome.msg, InvalidFileTypeText)) =>
       /\ FirstFileNotImage
       /\ dirs = {NormalizePath(imageArgs.outputDir)}

C15_Witness ==
  /\ FirstFileNotImage
  /\ Len(generated.files) = 2
  /\ StartsWithImage(generated.files[2].mediaType)
  /\ Failed
  /\ dirs # {}
  /\ files = {}

\* something was thrown inside the try block of generateComicImage
Raised == raised # NoOutcome

\* how often token occurs in text
Occurrences(text, token) == Cardinality({i \in 1..Len(text) : text[i] = token})

\* C16: an Error thrown inside generateComicImage (by the provider call, the
\* check for files, the directory creation, the media-type check or the
\* file write) reaches the caller as an Error whose message is
\* "Failed to generate comic: " followed by the original message, the prefix
\* occurring once; a thrown value that is no Error reaches the caller as it
\* was thrown.  Nothing else makes a run of generateComicImage fail.
C16_ErrorsWrappedOnce ==
  /\ Raised =>
       /\ pc = "done"
       /\ raised.kind = "threw" =>
            /\ outcome = Threw(<<GenerationPrefix>> \o raised.msg)
            /\ Occurrences(outcome.msg, GenerationPrefix) = 1
       /\ raised.kind = "threwValue" => outcome = raised
  /\ (ImageInvoked /\ pc = "done" /\ outcome.kind # "returned") => Raised

C16_Witness ==
  /\ Raised
  /\ raised.kind = "threw"
  /\ target # NoImage
  /\ outcome.msg = <<GenerationPrefix, "ENOSPC: no space left on device, write">>

(***************************************************************************)
(* generateGithubComic.                                                    *)
(***************************************************************************)
ComicInvoked == op = "generateGithubComic"

StageOrder == <<"fetchRepositories", "createComicPrompt", "generateComicImage">>

\* the stages started so far, and whether each one before the last returned
StagesInOrder ==
  /\ Len(stages) \in 1..Len(StageOrder)
  /\ stages = SubSeq(StageOrder, 1, Len(stages))
  /\ Len(stageResults) \in {Len(stages) - 1, Len(stages)}
  /\ \A k \in 1..(Len(stages) - 1) : stageResults[k].kind = "returned"

\* C17: in a run of generateGithubComic the stages start in the order
\* fetchRepositories, createComicPrompt, generateComicImage, each one only
\* after the one before it returned: the prompt is built from the
\* repositories the fetch returned, the provider is called once, with the
\* prompt that was built.  The run ends with what its last started stage
\* threw or returned, as that stage gave it, so a stage that fails is the
\* last one started.
C17_StagesInOrder ==
  ComicInvoked =>
    /\ StagesInOrder
    /\ Len(stages) >= 2 =>
         /\ Len(requests) = 1
         /\ stageResults[1] = FetchOutcome(args.user.s, response)
         /\ stageResults[2] =
              CreateComicPrompt(ArrayOf(stageResults[1].repos), args.user, args.count)
    /\ IF Len(stages) = 3
       THEN providerCalls = <<ProviderCall(stageResults[2].text, imageArgs.apiKey)>>
       ELSE providerCalls = <<>> /\ dirs = {} /\ files = {}
    /\ pc = "done" =>
         /\ Len(stageResults) = Len(stages)
         /\ outcome = stageResults[Len(stages)]
    /\ pc # "done" => outcome = NoOutcome

C17_Witness ==
  /\ ComicInvoked
  /\ pc = "done"
  /\ stages = <<"fetchRepositories", "createComicPrompt">>
  /\ outcome = Threw(<<"count must be a positive number">>)
  /\ providerCalls = <<>>

\* the run failed on the shape of the username
UsernameFailure ==
  /\ op \in {"fetchRepositories", "generateGithubComic"}
  /\ outcome = Threw(InvalidUsernameMessage(args.user.s))

\* the run failed on one of the checks of createComicPrompt
ReposFailure == outcome = Threw(<<"repos must be an array">>)

CountFailure == outcome = Threw(<<"count must be a positive number">>)

NameFailure ==
  /\ outcome.kind = "threw"
  /\ \E idx \in 0..(MaxRepos + 1) : outcome.msg = MissingNameMessage(idx)

ValidationFailure == UsernameFailure \/ ReposFailure \/ CountFailure \/ NameFailure

\* a request was handed to fetch, or generateText was called
NetworkCalled == requests # <<>> \/ providerCalls # <<>>

\* C18 as claimed: a validation failure (username shape, repositories that
\* are no array, a count that is not positive, a repository without a name)
\* is raised before any network call, generateGithubComic with a repoCount
\* that is not positive included.
C18_ValidationBeforeAnyNetworkCall == ValidationFailure => ~NetworkCalled

\* C18: a failure on the shape of the username is raised before any network
\* call, a validation failure of createComicPrompt called on its own is
\* raised with no network call at all, and every validation failure is
\* raised before the image provider is called; under generateGithubComic a
\* failure on the count or on a repository name is raised after the request
\* to GitHub was made and answered.
C18_ValidationBeforeProviderCall ==
  /\ UsernameFailure => ~NetworkCalled
  /\ (PromptInvoked /\ ValidationFailure) => ~NetworkCalled
  /\ ValidationFailure => providerCalls = <<>>
  /\ (ComicInvoked /\ (CountFailure \/ NameFailure)) =>
       /\ Len(requests) = 1
       /\ response # NoResponse
       /\ stages = <<"fetchRepositories", "createComicPrompt">>

C18_Witness ==
  /\ ComicInvoked
  /\ args.count = Num(0)
  /\ CountFailure
  /\ Len(requests) = 1
  /\ providerCalls = <<>>

\* the run ended by returning
Returned == pc = "done" /\ outcome.kind = "returned"

\* C19 as claimed: a run either returns the filePath and fileName of the
\* image it wrote, or fails having written nothing but, possibly, the output
\* directory; there is an image file only if the run returned.
C19_NoPartialSuccess ==
  /\ files # {} =>
       /\ Returned
       /\ outcome.image # NoImage
       /\ files = {FileOnDisk(outcome.image.filePath,
                              ExaminedFile(generated).uint8Array, TRUE)}
  /\ (ImageInvoked /\ Returned) => files # {}

\* a failed run that left a file behind
C19_Witness ==
  /\ Failed
  /\ \E f \in files : f.path = target.filePath /\ ~f.complete

\* fetchRepositories, alone or as the first stage of generateGithubComic,
\* failed on what GitHub answered
FetchFailedUpstream ==
  /\ FetchInvoked \/ (ComicInvoked /\ stages = <<"fetchRepositories">>)
  /\ response # NoResponse
  /\ Failed

\* C20 as claimed: every failure of the fetch on GitHub's answer (a failure
\* status, a body that is no array, an empty array) has a message that
\* names the username, and for a failure status the status number too.
C20_EveryFetchFailureNamesUser ==
  FetchFailedUpstream =>
    /\ Contains(outcome.msg, args.user.s)
    /\ ~response.ok => Contains(outcome.msg, <<ToString(response.status)>>)

\* C20: the message for a failure status names the username and the status
\* number, the message for an empty array names the username; the message
\* for a body that is no array is "Invalid response from GitHub API" and
\* names neither.
C20_FetchFailureMessages ==
  FetchFailedUpstream =>
    /\ ~response.ok =>
         Contains(outcome.msg,
                  args.user.s \o <<": ", ToString(response.status), " ">>)
    /\ (response.ok /\ IsArray(response.body)) =>
         /\ response.body.items = <<>>
         /\ Contains(outcome.msg, args.user.s)
    /\ (response.ok /\ ~IsArray(response.body)) =>
         /\ outcome.msg = <<"Invalid response from GitHub API">>
         /\ ~Contains(outcome.msg, args.user.s)

C20_Witness ==
  /\ FetchFailedUpstream
  /\ response.ok
  /\ ~IsArray(response.body)
  /\ args.user.s = <<"a", "-", "Z">>

(***************************************************************************)
(* The generate command.                                                   *)
(***************************************************************************)
GenerateRun == cliPc # "none"

\* an API key was given, by the flag or by the environment
ApiKeyGiven == Truthy(cliArgs.apiKey) \/ Truthy(cliArgs.envKey)

\* text is a decimal numeral: digits, or digits with a point and a fraction
IsNumeral(text) ==
  LET whole == DigitsPrefix(text)
      rest == SubSeq(text, Len(whole) + 1, Len(text))
  IN  /\ whole # <<>>
      /\ \/ rest = <<>>
         \/ /\ Head(rest) = "."
            /\ DigitsPrefix(Tail(rest)) = Tail(rest)

\* text, white space around it aside, writes a number from 1 to 10, 1 and 10
\* included
NumberOneToTen(padded) ==
  LET text == Trim(padded)
      whole == DigitsPrefix(text)
      fraction == SubSeq(text, Len(whole) + 2, Len(text))
  IN  /\ IsNumeral(text)
      /\ \/ DecimalValue(whole) \in 1..9
         \/ DecimalValue(whole) = 10 /\ \A i \in 1..Len(fraction) : fraction[i] = "0"

\* the command ended with status 1 on a message, having called neither GitHub
\* nor the image provider
ExitedBeforeAnyCall ==
  /\ cliPc = "exited"
  /\ exitCode = 1
  /\ stderr # <<>>
  /\ requests = <<>>
  /\ providerCalls = <<>>

\* C21 as claimed: the generate command accepts a --count value only when
\* it is a number from 1 to 10; for any other value it exits with status 1
\* after printing a message, and calls neither GitHub nor the image provider.
C21_CountAcceptedOnlyOneToTen ==
  (GenerateRun /\ ApiKeyGiven /\ ~NumberOneToTen(cliArgs.count)) =>
    ExitedBeforeAnyCall

\* a count that is no number is taken for the digits it begins with
C21_Witness ==
  /\ GenerateRun
  /\ cliArgs.count = <<"5", "a">>
  /\ args.count = Num(5)
  /\ requests # <<>>

GenerateExited == cliPc = "exited"

\* the command did not get as far as generateGithubComic
StoppedBeforePipeline == op = "generate"

\* generateGithubComic threw
PipelineFailed == ComicInvoked /\ pc = "done" /\ outcome.kind # "returned"

\* some line of the stream holds part
Printed(stream, part) == \E i \in 1..Len(stream) : Contains(stream[i], part)

SuccessReported == Printed(stdout, <<" Success!">>)

ImageReturned == ImageInvoked /\ Returned

\* the text of the first file's media type after the "/"
Subtype == SubSeq(generated.files[1].mediaType, 3, Len(generated.files[1].mediaType))

ExpectedExtension == IF Subtype = <<>> THEN <<"png">> ELSE Subtype

\* the output directory as path.join writes it: without "./" in front and
\* "/" behind
OutputDirectory ==
  CASE imageArgs.outputDir = <<".", "/", "output">> -> <<"output">>
    [] imageArgs.outputDir \in {<<"out">>, <<".", "/", "out", "/">>} -> <<"out">>

\* C23: when generateComicImage returns, fileName is
\* github-comic-<epoch-millis>.<extension>, the extension being the text of
\* the first file's media type after the "/", or "png" when that text is
\* empty; filePath is that file name in the output directory; and the file
\* at filePath holds the payload of the first file.
C23_WritesNamedFile ==
  ImageReturned =>
    /\ \E now \in Timestamps :
         outcome.image.fileName =
           <<"github-comic-", ToString(now), ".">> \o ExpectedExtension
    /\ outcome.image.filePath = OutputDirectory \o <<"/">> \o outcome.image.fileName
    /\ files = {FileOnDisk(outcome.image.filePath, generated.files[1].uint8Array, TRUE)}
    /\ dirs = {OutputDirectory}

C23_Witness ==
  /\ ImageReturned
  /\ generated.files[1].mediaType = <<"image", "/">>
  /\ imageArgs.outputDir = <<".", "/", "out", "/">>
  /\ outcome.image.filePath = <<"out", "/", "github-comic-", "2", ".", "png">>

(***************************************************************************)
(* Two invocations of generateComicImage at once.                          *)
(***************************************************************************)
\* invocation i read the clock
Stamped(i) == calls[i].pc \in {"awaitWrite", "done"}

BothStamped == DOMAIN calls = {1, 2} /\ Stamped(1) /\ Stamped(2)

BothDone == DOMAIN calls = {1, 2} /\ calls[1].pc = "done" /\ calls[2].pc = "done"

\* the path invocation i writes to
PathOf(i) == TargetOf(calls[i].outputDir, calls[i].file.mediaType, calls[i].now).filePath

\* the extension invocation i derives: the text after "image/", or "png"
ExtensionOf(i) ==
  IF Len(calls[i].file.mediaType) = 2 THEN <<"png">>
  ELSE SubSeq(calls[i].file.mediaType, 3, Len(calls[i].file.mediaType))

\* the directory invocation i writes into ("out" and "./out/" are one)
DirectoryOf(i) ==
  IF calls[i].outputDir = <<"other">> THEN <<"other">> ELSE <<"out">>

\* the two invocations have directory, millisecond and extension in common
AllThreeCoincide ==
  /\ DirectoryOf(1) = DirectoryOf(2)
  /\ calls[1].now = calls[2].now
  /\ ExtensionOf(1) = ExtensionOf(2)

\* C24: what one of two concurrent invocations returns is decided by its
\* own arguments and its own clock reading.  The two write to different
\* paths whenever their directories, their milliseconds or their extensions
\* differ, and then each file holds its own payload; they write to the same
\* path only when all three coincide, and then both return that filePath
\* while the one file there holds the payload written last.
C24_SamePathOnlyWhenAllCoincide ==
  /\ BothStamped => (PathOf(1) = PathOf(2) <=> AllThreeCoincide)
  /\ \A i \in DOMAIN calls :
       calls[i].pc = "done" =>
         /\ calls[i].result.fileName =
              <<"github-comic-", ToString(calls[i].now), ".">> \o ExtensionOf(i)
         /\ calls[i].result.filePath =
              DirectoryOf(i) \o <<"/">> \o calls[i].result.fileName
  /\ BothDone =>
       IF AllThreeCoincide
       THEN /\ calls[1].result = calls[2].result
            /\ \E i \in {1, 2} :
                 files = {FileOnDisk(PathOf(i), calls[i].file.uint8Array, TRUE)}
       ELSE files = {FileOnDisk(PathOf(i), calls[i].file.uint8Array, TRUE) :
                       i \in {1, 2}}

C24_Witness ==
  /\ BothDone
  /\ calls[1].outputDir # calls[2].outputDir
  /\ calls[1].file.mediaType # calls[2].file.mediaType
  /\ calls[1].result.filePath = calls[2].result.filePath
  /\ Cardinality(files) = 1

(***************************************************************************)
(* The URL of the request.                                                 *)
(***************************************************************************)
\* a request was handed to fetch, by fetchRepositories alone or under
\* generateGithubComic
Requested == (FetchInvoked \/ ComicInvoked) /\ requests # <<>>

\* the characters that end a path segment or start a query or a fragment,
\* and the escape character
UrlSignificant == {"/", "?", "#", "&", "=", "%"}

\* C25: a username that passes the check of fetchRepositories is left as it
\* is by the percent-encoding, so the URL requested is
\* https://api.github.com/users/<username>/repos with the fixed query, and
\* the username holds no character that would add a path segment or a query
\* parameter.
C25_AcceptedUsernameUnchangedInUrl ==
  Requested =>
    /\ Len(requests) = 1
    /\ EncodeURIComponent(FetchUser) = FetchUser
    /\ requests[1].url =
         <<"https://api.github.com", "/users/">> \o FetchUser
           \o <<"/repos", "?sort=updated&per_page=30">>
    /\ \A i \in 1..Len(FetchUser) : FetchUser[i] \notin UrlSignificant

C25_Witness ==
  /\ Requested
  /\ Len(FetchUser) = MaxTailRepeat + 1
  /\ FetchUser[MaxTailRepeat] = "-"
  /\ requests[1].url[Len(requests[1].url) - 1] = "/repos"

====
